---- MODULE Spec2Model ----
(***************************************************************************)
(* nebula-cert-comment: the line scanner of processor.processFile and the  *)
(* walk callback of main (src/main.go, lines 219-442).                     *)
(*                                                                         *)
(* Bytes are modelled as sequences of symbols.  A symbol is either one     *)
(* distinguished byte (LF, NUL, SP) or a fixed run of bytes that the code  *)
(* only ever treats as a unit (a marker fragment, a base64 body, a field   *)
(* of a rendered comment).  Prefix tests, line splitting and concatenation *)
(* are then the byte operations of the code.                               *)
(***************************************************************************)
EXTENDS Naturals, Sequences, FiniteSets

\* ------------------------------------------------------------------ bounds
\* how many segments (single lines or whole blocks) an input file is made of
MaxSegs == 3
\* how many entries the directory walk visits
NumFiles == 2

\* ----------------------------------------------------------------- symbols
LF == "LF"
NUL == "NUL"
SP == "SP"

\* strings.HasPrefix
HasPrefix(s, p) ==
    /\ Len(s) >= Len(p)
    /\ SubSeq(s, 1, Len(p)) = p

\* the literal of the first case of the switch
BeginMarker == <<"-----BEGIN NEBULA CERTIFICATE", "-----">>
\* the literal of the second case of the switch
EndMarker == <<"-----END NEBULA CERTIFICATE", "-----">>
\* the literal of the third case of the switch
AnnotationPrefix == <<"# nebula:", " name=">>

\* the V2 banners of the certificate library: the same text with " V2" before
\* the closing dashes
BeginMarkerV2 == <<"-----BEGIN NEBULA CERTIFICATE", " V2", "-----">>
EndMarkerV2 == <<"-----END NEBULA CERTIFICATE", " V2", "-----">>

\* ------------------------------------------------------------ certificates
\* The decoded certificates the model knows, by the base64 body that carries
\* them.  k2 has a group name with a line feed in it, k3 is a version 2
\* certificate.
CertBodies == {"k1", "k2", "k3"}

CertOf(k) ==
    CASE k = "k1" -> [name |-> <<"My", SP, "CA">>, version |-> 1,
                      groups |-> << <<"dev">> >>,
                      notAfter |-> "2026-06-11", fingerprint |-> "0c0f"]
      [] k = "k2" -> [name |-> <<"host">>, version |-> 1,
                      groups |-> << <<"ops", LF, "qa">>, <<"dev">> >>,
                      notAfter |-> "2027-01-01", fingerprint |-> "77aa"]
      [] k = "k3" -> [name |-> <<"host2">>, version |-> 2,
                      groups |-> << >>,
                      notAfter |-> "2027-02-02", fingerprint |-> "9b1e"]

NoCert == "nocert"

\* bytes.Buffer content without one trailing line feed
ChompLF(b) ==
    IF Len(b) > 0 /\ b[Len(b)] = LF THEN SubSeq(b, 1, Len(b) - 1) ELSE b

\* cert.UnmarshalCertificateFromPEM: the PEM decoder skips what precedes a
\* well-formed block; the buffer always ends with the END line just read, so
\* a block is found exactly when the buffer ends with BEGIN, body, END lines.
\* Banner and body have to agree on the version.
Decode(crt) ==
    LET b == ChompLF(crt)
        n == Len(b)
        IsBlock(bm, em, k) ==
            LET blk == bm \o <<LF, k, LF>> \o em
            IN  /\ n >= Len(blk)
                /\ SubSeq(b, n - Len(blk) + 1, n) = blk
                /\ (n = Len(blk) \/ b[n - Len(blk)] = LF)
    IN  IF \E k \in CertBodies : CertOf(k).version = 1 /\ IsBlock(BeginMarker, EndMarker, k)
        THEN CHOOSE k \in CertBodies : CertOf(k).version = 1 /\ IsBlock(BeginMarker, EndMarker, k)
        ELSE IF \E k \in CertBodies : CertOf(k).version = 2 /\ IsBlock(BeginMarkerV2, EndMarkerV2, k)
        THEN CHOOSE k \in CertBodies : CertOf(k).version = 2 /\ IsBlock(BeginMarkerV2, EndMarkerV2, k)
        ELSE NoCert

\* strconv / %d of the version
Itoa(v) == IF v = 1 THEN "1" ELSE "2"

\* fmt %q: double quotes around the value, control bytes escaped
RECURSIVE Escape(_)
Escape(s) ==
    IF s = << >> THEN << >>
    ELSE LET c == Head(s)
         IN  <<(IF c = LF THEN "\\n" ELSE IF c = NUL THEN "\\x00" ELSE c)>>
             \o Escape(Tail(s))

Quote(s) == <<"\"">> \o Escape(s) \o <<"\"">>

\* strings.Join(groups, ",")
RECURSIVE Join(_)
Join(gs) ==
    IF gs = << >> THEN << >>
    ELSE IF Len(gs) = 1 THEN gs[1]
    ELSE gs[1] \o <<",">> \o Join(Tail(gs))

\* what comment writes to outBuf for a decoded certificate
Comment(k) ==
    LET c == CertOf(k)
    IN  <<"# nebula:", " name=">> \o Quote(c.name)
        \o (IF c.version > 1 THEN <<" version=", Itoa(c.version)>> ELSE << >>)
        \o (IF Len(c.groups) > 0 THEN <<" groups=">> \o Join(c.groups) ELSE << >>)
        \o <<" notAfter=", c.notAfter>>
        \o <<" fingerprint=", c.fingerprint, LF>>

\* ----------------------------------------------------------------- scanner
\* bufio.Reader.ReadBytes('\n') on the unread bytes r: the bytes up to and
\* including the first line feed, or everything left together with io.EOF
RECURSIVE IndexLF(_, _)
IndexLF(r, i) ==
    IF i > Len(r) THEN 0
    ELSE IF r[i] = LF THEN i
    ELSE IndexLF(r, i + 1)

ReadBytes(r) ==
    LET i == IndexLF(r, 1)
    IN  IF i = 0
        THEN [bs |-> r, rest |-> << >>, eof |-> TRUE]
        ELSE [bs |-> SubSeq(r, 1, i), rest |-> SubSeq(r, i + 1, Len(r)), eof |-> FALSE]

\* mutant: the guard never finds a zero byte
IsBinaryNever(bs) == FALSE

\* bytes.IndexByte(bs, 0) != -1
IsBinary(bs) == \E i \in 1..Len(bs) : bs[i] = NUL

\* the state of one call of processFile: the processor's three buffers, the
\* locals of the loop, the reader, and the returned (found, err) once ret
StartScan(data) ==
    [srcBuf |-> << >>, outBuf |-> << >>, crtBuf |-> << >>,
     line |-> 1, inCert |-> FALSE, foundCert |-> FALSE, eof |-> FALSE,
     rest |-> data, ret |-> FALSE, err |-> "none"]

\* mutant: the write to srcBuf moved below the switch, so that a line the
\* switch skips is not written
WriteSrcSkipAnnotation(s, rd) ==
    [s EXCEPT !.srcBuf = IF HasPrefix(rd.bs, AnnotationPrefix) THEN @ ELSE @ \o rd.bs,
              !.rest = rd.rest, !.eof = rd.eof]

\* p.srcBuf.Write(bs), after the read
WriteSrc(s, rd) ==
    [s EXCEPT !.srcBuf = @ \o rd.bs, !.rest = rd.rest, !.eof = rd.eof]

\* the BEGIN case writing the line to outBuf as well
OnBeginEcho(s, text) ==
    [s EXCEPT !.inCert = TRUE, !.crtBuf = @ \o text, !.outBuf = @ \o text]

\* case HasPrefix(text, BEGIN)
OnBegin(s, text) ==
    [s EXCEPT !.inCert = TRUE, !.crtBuf = @ \o text]

\* case HasPrefix(text, END): comment, then crtBuf.WriteTo(outBuf) and Reset;
\* a decode error returns (true, err) at once
OnEnd(s, text) ==
    LET crt == s.crtBuf \o text
        k == Decode(crt)
    IN  IF k = NoCert
        THEN [s EXCEPT !.inCert = FALSE, !.foundCert = TRUE, !.crtBuf = crt,
                       !.ret = TRUE, !.err = "decode"]
        ELSE [s EXCEPT !.inCert = FALSE, !.foundCert = TRUE,
                       !.outBuf = @ \o Comment(k) \o crt, !.crtBuf = << >>]

\* case HasPrefix(text, "# nebula: name="): skip and regenerate
OnAnnotation(s, text) == s

\* mutant: a last line without a line feed is not written
OnDefaultNoTail(s, text) ==
    IF text = << >> \/ text[Len(text)] # LF THEN s
    ELSE IF s.inCert
    THEN [s EXCEPT !.crtBuf = @ \o text]
    ELSE [s EXCEPT !.outBuf = @ \o text]

\* default
OnDefault(s, text) ==
    IF s.inCert
    THEN [s EXCEPT !.crtBuf = @ \o text]
    ELSE [s EXCEPT !.outBuf = @ \o text]

\* which branch the next iteration of the loop takes
Branch(s) ==
    LET text == ReadBytes(s.rest).bs
    IN  IF s.line = 1 /\ IsBinary(text) THEN "binary"
        ELSE IF HasPrefix(text, BeginMarker) THEN "begin"
        ELSE IF HasPrefix(text, EndMarker)
             THEN (IF Decode(s.crtBuf \o text) = NoCert THEN "endfail" ELSE "end")
        ELSE IF HasPrefix(text, AnnotationPrefix) THEN "annotation"
        ELSE "default"

\* one iteration of the for !eof loop
Iterate(s) ==
    LET rd == ReadBytes(s.rest)
        s1 == WriteSrc(s, rd)
        text == rd.bs
    IN  IF s.line = 1 /\ IsBinary(text)
        THEN [s1 EXCEPT !.ret = TRUE]
        ELSE LET s2 == IF HasPrefix(text, BeginMarker) THEN OnBegin(s1, text)
                       ELSE IF HasPrefix(text, EndMarker) THEN OnEnd(s1, text)
                       ELSE IF HasPrefix(text, AnnotationPrefix) THEN OnAnnotation(s1, text)
                       ELSE OnDefault(s1, text)
             IN  IF s2.ret THEN s2
                 ELSE [s2 EXCEPT !.line = @ + 1, !.ret = s2.eof]

\* processFile on bytes that are read without an I/O error
RECURSIVE RunScan(_)
RunScan(s) == IF s.ret THEN s ELSE RunScan(Iterate(s))

ProcessBytes(data) == RunScan(StartScan(data))

\* -------------------------------------------------------------------- state
VARIABLES
    disk,       \* the bytes of each entry the walk visits
    kind,       \* "file", "symlink" or "large" for each entry
    orig,       \* the bytes each entry had when the program started
    fmt,        \* the -format string, the entries parsed from it, the rendering
    flagList,   \* -l
    flagDiff,   \* -d
    flagWrite,  \* -w
    idx,        \* the entry the walk callback is at
    pc,         \* "walk", "scan", "scanned", "exit" or "fatal"
    scan,       \* the processor's buffers and the locals of processFile
    listed,     \* entries whose path was printed
    diffed,     \* entries for which a diff was printed
    written     \* entries written back

vars == <<disk, kind, orig, fmt, flagList, flagDiff, flagWrite, idx, pc, scan,
          listed, diffed, written>>

\* ----------------------------------------------------------------- inputs
TextLine == <<"x", LF>>
NulLine == <<"x", NUL, LF>>
StaleLine == AnnotationPrefix \o <<"\"old\"", LF>>
BeginLine == BeginMarker \o <<LF>>
EndLine == EndMarker \o <<LF>>
BodyLine == <<"k1", LF>>
Block(k) == BeginMarker \o <<LF, k, LF>> \o EndMarker \o <<LF>>
PaddedBlock ==
    <<SP, SP>> \o BeginMarker \o <<LF, SP, SP, "k1", LF, SP, SP>> \o EndMarker \o <<LF>>
BlockV2 == BeginMarkerV2 \o <<LF, "k3", LF>> \o EndMarkerV2 \o <<LF>>

Segments ==
    {TextLine, NulLine, StaleLine, Comment("k1"), BeginLine, EndLine, BodyLine,
     Block("k1"), Block("k2"), PaddedBlock, BlockV2}

RECURSIVE Concat(_)
Concat(ss) == IF ss = << >> THEN << >> ELSE Head(ss) \o Concat(Tail(ss))

\* every concatenation of at most MaxSegs segments, with or without the line
\* feed that ends the last line
ScanFiles ==
    LET whole == UNION {{Concat(ss) : ss \in [1..n -> Segments]} : n \in 0..MaxSegs}
    IN  whole \cup {ChompLF(f) : f \in whole}

\* the entries a walk is made of: files with each outcome of the scan, a file
\* that ends inside a block and one that holds what would close that block,
\* and the two kinds of entry the callback skips
WalkEntries ==
    {[kind |-> "file", data |-> TextLine],
     [kind |-> "file", data |-> Block("k1")],
     [kind |-> "file", data |-> Comment("k1") \o Block("k1") \o TextLine],
     [kind |-> "file", data |-> StaleLine \o Block("k1")],
     [kind |-> "file", data |-> NulLine \o Block("k1")],
     [kind |-> "file", data |-> Block("k1") \o BeginLine \o TextLine \o EndLine],
     [kind |-> "file", data |-> BeginLine \o BodyLine],
     [kind |-> "file", data |-> EndLine],
     [kind |-> "symlink", data |-> Block("k1")],
     [kind |-> "large", data |-> Block("k1")]}

Walks == UNION {[1..n -> WalkEntries] : n \in 1..NumFiles}

\* no format string is being parsed or rendered
NoFormat ==
    [pc |-> "idle", input |-> << >>, fes |-> << >>, err |-> "none", text |-> << >>,
     cert |-> "none", fpErr |-> FALSE, out |-> << >>, parts |-> << >>]

Quiet ==
    /\ listed = {}
    /\ diffed = {}
    /\ written = {}
    /\ fmt = NoFormat

\* main before the first callback: flags parsed, the processor's buffers empty
Init ==
    /\ \E w \in Walks :
        /\ disk = [i \in DOMAIN w |-> w[i].data]
        /\ kind = [i \in DOMAIN w |-> w[i].kind]
    /\ orig = disk
    /\ flagList \in BOOLEAN
    /\ flagDiff \in BOOLEAN
    /\ flagWrite \in BOOLEAN
    /\ idx = 1
    /\ pc = "walk"
    /\ scan = StartScan(<< >>)
    /\ Quiet

\* processFile entered on one file of ScanFiles, the file opened
ScanInit ==
    /\ \E f \in ScanFiles : disk = <<f>>
    /\ kind = <<"file">>
    /\ orig = disk
    /\ flagList = FALSE
    /\ flagDiff = FALSE
    /\ flagWrite = FALSE
    /\ idx = 1
    /\ pc = "scan"
    /\ scan = StartScan(disk[1])
    /\ Quiet

\* ------------------------------------------------------------------ actions
Walk == <<disk, kind, orig, fmt, flagList, flagDiff, flagWrite, idx, listed, diffed, written>>

\* the callback returns nil for a symlink or a file over the size limit
SkipEntry ==
    /\ pc = "walk"
    /\ idx <= Len(disk)
    /\ kind[idx] # "file"
    /\ idx' = idx + 1
    /\ UNCHANGED <<disk, kind, orig, fmt, flagList, flagDiff, flagWrite, pc, scan,
                   listed, diffed, written>>

\* processFile entered without p.crtBuf.Reset()
StartFileKeepCrt ==
    /\ pc = "walk"
    /\ idx <= Len(disk)
    /\ kind[idx] = "file"
    /\ scan' = [StartScan(disk[idx]) EXCEPT !.crtBuf = scan.crtBuf]
    /\ pc' = "scan"
    /\ UNCHANGED Walk

\* processFile: the three Resets, os.Open succeeds
StartFile ==
    /\ pc = "walk"
    /\ idx <= Len(disk)
    /\ kind[idx] = "file"
    /\ scan' = StartScan(disk[idx])
    /\ pc' = "scan"
    /\ UNCHANGED Walk

\* processFile: the three Resets, os.Open fails
OpenFail ==
    /\ pc = "walk"
    /\ idx <= Len(disk)
    /\ kind[idx] = "file"
    /\ scan' = [StartScan(<< >>) EXCEPT !.ret = TRUE, !.err = "open"]
    /\ pc' = "scanned"
    /\ UNCHANGED Walk

\* ReadBytes returns an error other than io.EOF
ReadFail ==
    /\ pc = "scan"
    /\ scan' = [scan EXCEPT !.ret = TRUE, !.err = "read"]
    /\ pc' = "scanned"
    /\ UNCHANGED Walk

\* one iteration of the loop
LoopStep ==
    /\ scan' = Iterate(scan)
    /\ pc' = IF scan'.ret THEN "scanned" ELSE "scan"
    /\ UNCHANGED Walk

\* the first line holds a zero byte: break
ScanBinary ==
    /\ pc = "scan"
    /\ Branch(scan) = "binary"
    /\ LoopStep

\* a BEGIN line
ScanBegin ==
    /\ pc = "scan"
    /\ Branch(scan) = "begin"
    /\ LoopStep

\* an END line, the buffered block decodes
ScanEnd ==
    /\ pc = "scan"
    /\ Branch(scan) = "end"
    /\ LoopStep

\* an END line, the buffered block does not decode
ScanEndFail ==
    /\ pc = "scan"
    /\ Branch(scan) = "endfail"
    /\ LoopStep

\* a line that starts like a generated comment
ScanAnnotation ==
    /\ pc = "scan"
    /\ Branch(scan) = "annotation"
    /\ LoopStep

\* any other line
ScanDefault ==
    /\ pc = "scan"
    /\ Branch(scan) = "default"
    /\ LoopStep

\* mutant: found is looked at before err, so a file whose scan failed after a
\* block was found is listed, diffed and written before the program ends
ProcessFailedActs ==
    /\ pc = "scanned"
    /\ scan.err # "none"
    /\ listed' = IF scan.foundCert /\ flagList THEN listed \cup {idx} ELSE listed
    /\ diffed' = IF scan.foundCert /\ flagDiff /\ scan.srcBuf # scan.outBuf
                 THEN diffed \cup {idx} ELSE diffed
    /\ IF scan.foundCert /\ flagWrite
       THEN /\ disk' = [disk EXCEPT ![idx] = scan.outBuf]
            /\ written' = written \cup {idx}
       ELSE UNCHANGED <<disk, written>>
    /\ pc' = "fatal"
    /\ UNCHANGED <<kind, orig, fmt, flagList, flagDiff, flagWrite, idx, scan>>

\* the callback returns the error of processFile; WalkDir stops and main
\* ends in log.Fatal
ProcessFailed ==
    /\ pc = "scanned"
    /\ scan.err # "none"
    /\ pc' = "fatal"
    /\ UNCHANGED <<disk, kind, orig, fmt, flagList, flagDiff, flagWrite, idx, scan,
                   listed, diffed, written>>

\* diff.Diff(srcBuf, outBuf): no bytes when the two are equal
Diff(a, b) == IF a = b THEN << >> ELSE <<"diff">>

\* the callback after processFile returned without error: list, diff, write
FinishFile ==
    /\ pc = "scanned"
    /\ scan.err = "none"
    /\ listed' = IF scan.foundCert /\ flagList THEN listed \cup {idx} ELSE listed
    /\ diffed' = IF scan.foundCert /\ flagDiff /\ Len(Diff(scan.srcBuf, scan.outBuf)) > 0
                 THEN diffed \cup {idx} ELSE diffed
    /\ IF scan.foundCert /\ flagWrite
       THEN /\ disk' = [disk EXCEPT ![idx] = scan.outBuf]
            /\ written' = written \cup {idx}
            /\ scan' = [scan EXCEPT !.outBuf = << >>]
       ELSE UNCHANGED <<disk, written, scan>>
    /\ idx' = idx + 1
    /\ pc' = "walk"
    /\ UNCHANGED <<kind, orig, fmt, flagList, flagDiff, flagWrite>>

\* as FinishFile, but write fails: in os.Create (the file is as it was) or in
\* WriteTo (the file is truncated)
WriteFail ==
    /\ pc = "scanned"
    /\ scan.err = "none"
    /\ scan.foundCert /\ flagWrite
    /\ listed' = IF flagList THEN listed \cup {idx} ELSE listed
    /\ diffed' = IF flagDiff /\ Len(Diff(scan.srcBuf, scan.outBuf)) > 0
                 THEN diffed \cup {idx} ELSE diffed
    /\ \E left \in {disk[idx], << >>} : disk' = [disk EXCEPT ![idx] = left]
    /\ scan' = [scan EXCEPT !.err = "write"]
    /\ pc' = "fatal"
    /\ UNCHANGED <<kind, orig, fmt, flagList, flagDiff, flagWrite, idx, written>>

\* WalkDir has visited every entry; main returns
WalkDone ==
    /\ pc = "walk"
    /\ idx > Len(disk)
    /\ pc' = "exit"
    /\ UNCHANGED <<disk, kind, orig, fmt, flagList, flagDiff, flagWrite, idx, scan,
                   listed, diffed, written>>

ScanNext ==
    \/ ReadFail
    \/ ScanBinary
    \/ ScanBegin
    \/ ScanEnd
    \/ ScanEndFail
    \/ ScanAnnotation
    \/ ScanDefault

Next ==
    \/ SkipEntry
    \/ StartFile
    \/ OpenFail
    \/ ScanNext
    \/ ProcessFailed
    \/ FinishFile
    \/ WriteFail
    \/ WalkDone

\* the whole program on a walk of WalkEntries
Spec == Init /\ [][Next]_vars

\* processFile on every file of ScanFiles
ScanSpec == ScanInit /\ [][ScanNext]_vars

\* ------------------------------------------------------------------ format
\* how many comma-separated entries a format string has at most
MaxEntries == 2

\* the FormatType constants
FormatInvalid == 0
FormatName == 1
FormatVersion == 2
FormatCurve == 3
FormatGroups == 4
FormatNotAfter == 5
FormatFingerprint == 6
FormatNetworks == 7
FormatUnsafeNetworks == 8
FormatJSON == 9

\* _FormatType_name cut at _FormatType_index, as stringer -linecomment
\* generates it: the line comment of each constant, and the constant's own
\* name where it has none.  FormatType(i) is element i + 1.
FormatTypeNames ==
    <<"FormatInvalid", "name", "version", "curve", "groups", "notAfter",
      "fingerprint", "networks", "unsafeNetworks", "json">>

\* FormatType.String
TypeName(t) == FormatTypeNames[t + 1]

\* strings.ToLower, symbol by symbol
LowerSym(c) ==
    CASE c = "FormatInvalid" -> "formatinvalid"
      [] c = "NAME" -> "name"
      [] c = "notAfter" -> "notafter"
      [] c = "NotAfter" -> "notafter"
      [] c = "unsafeNetworks" -> "unsafenetworks"
      [] OTHER -> c

ToLower(s) == [i \in 1..Len(s) |-> LowerSym(s[i])]

\* ParseFormatType without the ToLower of its argument
ParseFormatTypeExactCase(s) ==
    LET hits == {i \in 0..(Len(FormatTypeNames) - 1) :
                    s = ToLower(<<FormatTypeNames[i + 1]>>)}
    IN  IF hits = {} THEN FormatInvalid
        ELSE CHOOSE i \in hits : \A j \in hits : i <= j

\* ParseFormatType: the first index whose lowercased name is the lowercased
\* argument, index 0 included; 0 when there is none
ParseFormatType(s) ==
    LET hits == {i \in 0..(Len(FormatTypeNames) - 1) :
                    ToLower(s) = ToLower(<<FormatTypeNames[i + 1]>>)}
    IN  IF hits = {} THEN FormatInvalid
        ELSE CHOOSE i \in hits : \A j \in hits : i <= j

\* strings.Index for a one-byte separator, from position i on; 0 for none
RECURSIVE IndexFrom(_, _, _)
IndexFrom(s, sep, i) ==
    IF i > Len(s) THEN 0
    ELSE IF s[i] = sep THEN i
    ELSE IndexFrom(s, sep, i + 1)

\* strings.Split / strings.SplitSeq: always at least one part
RECURSIVE Split(_, _)
Split(s, sep) ==
    LET i == IndexFrom(s, sep, 1)
    IN  IF i = 0 THEN <<s>>
        ELSE <<SubSeq(s, 1, i - 1)>> \o Split(SubSeq(s, i + 1, Len(s)), sep)

\* the zero value of FormatEntry
ZeroEntry == [Type |-> FormatInvalid, Exclude |-> << >>, OmitEmpty |-> FALSE]

\* the loop of ParseFormatEntry over parts[1:]
RECURSIVE ParseModifiers(_, _)
ParseModifiers(fe, ps) ==
    IF ps = << >> THEN [fe |-> fe, err |-> "none", text |-> << >>]
    ELSE LET p == Head(ps)
         IN  IF p = <<"?">>
             THEN ParseModifiers([fe EXCEPT !.OmitEmpty = TRUE], Tail(ps))
             ELSE IF HasPrefix(p, <<"!=">>)
             THEN ParseModifiers([fe EXCEPT !.Exclude = Tail(p)], Tail(ps))
             ELSE [fe |-> fe, err |-> "invalid format modifier", text |-> p]

\* ParseFormatEntry: the entry, or the error with the text it quotes
ParseFormatEntry(entry) ==
    LET parts == Split(entry, ":")
        ft == ParseFormatType(parts[1])
    IN  IF ft = 0
        THEN [fe |-> ZeroEntry, err |-> "invalid format type", text |-> entry]
        ELSE ParseModifiers([ZeroEntry EXCEPT !.Type = ft], Tail(parts))

\* the loop of ParseFormatEntries: nil and the error at the first entry that
\* fails, otherwise fes with the entry appended
RECURSIVE ParseEach(_, _)
ParseEach(es, fes) ==
    IF es = << >> THEN [fes |-> fes, err |-> "none", text |-> << >>]
    ELSE LET r == ParseFormatEntry(Head(es))
         IN  IF r.err # "none"
             THEN [fes |-> << >>, err |-> r.err, text |-> r.text]
             ELSE ParseEach(Tail(es), Append(fes, r.fe))

\* the same loop putting each entry in front of fes
RECURSIVE ParseEachPrepend(_, _)
ParseEachPrepend(es, fes) ==
    IF es = << >> THEN [fes |-> fes, err |-> "none", text |-> << >>]
    ELSE LET r == ParseFormatEntry(Head(es))
         IN  IF r.err # "none"
             THEN [fes |-> << >>, err |-> r.err, text |-> r.text]
             ELSE ParseEachPrepend(Tail(es), <<r.fe>> \o fes)

ParseFormatEntriesPrepend(entries) == ParseEachPrepend(Split(entries, ","), << >>)

\* ParseFormatEntries
ParseFormatEntries(entries) == ParseEach(Split(entries, ","), << >>)

\* what the certificate library returns beside the fields of CertOf
Curve(k) == IF k = "k3" THEN "P256" ELSE "CURVE25519"

Networks(k) ==
    CASE k = "k1" -> << >>
      [] k = "k2" -> <<[addr |-> "10.1.0.2", bits |-> "16"]>>
      [] k = "k3" -> <<[addr |-> "10.2.0.3", bits |-> "16"],
                       [addr |-> "fd00::3", bits |-> "64"]>>

UnsafeNetworks(k) ==
    IF k = "k2" THEN <<[addr |-> "192.168.0.0", bits |-> "24"]>> ELSE << >>

\* json.Marshal of the certificate: one run of bytes, braces and quotes in it
MarshalJSON(k) ==
    CASE k = "k1" -> <<"{\"details\":{\"name\":\"My CA\"}}">>
      [] k = "k2" -> <<"{\"details\":{\"name\":\"host\"}}">>
      [] k = "k3" -> <<"{\"details\":{\"name\":\"host2\"}}">>

\* netipPrefixesToStrings: netip.Prefix.String of each element
netipPrefixesToStrings(ns) == [i \in 1..Len(ns) |-> <<ns[i].addr, "/", ns[i].bits>>]

\* FormatEntry.String: the value of the field; Fingerprint can fail, fpErr
\* says whether it does for this certificate
String(f, k, fpErr) ==
    LET c == CertOf(k)
        ok(s) == [s |-> s, err |-> "none"]
    IN  CASE f.Type = FormatName -> ok(c.name)
          [] f.Type = FormatVersion -> ok(<<Itoa(c.version)>>)
          [] f.Type = FormatCurve -> ok(<<Curve(k)>>)
          [] f.Type = FormatGroups -> ok(Join(c.groups))
          [] f.Type = FormatNotAfter -> ok(<<c.notAfter>>)
          [] f.Type = FormatFingerprint ->
                IF fpErr THEN [s |-> << >>, err |-> "fingerprint"]
                ELSE ok(<<c.fingerprint>>)
          [] f.Type = FormatNetworks -> ok(Join(netipPrefixesToStrings(Networks(k))))
          [] f.Type = FormatUnsafeNetworks ->
                ok(Join(netipPrefixesToStrings(UnsafeNetworks(k))))
          [] f.Type = FormatJSON -> ok(MarshalJSON(k))
          [] OTHER -> [s |-> << >>, err |-> "invalid type"]

\* the symbols with a byte that is not a letter, a digit, '-', ':' or '_'
NonBasic ==
    {SP, LF, NUL, ",", "/", "10.1.0.2", "10.2.0.3", "192.168.0.0",
     "{\"details\":{\"name\":\"My CA\"}}", "{\"details\":{\"name\":\"host\"}}",
     "{\"details\":{\"name\":\"host2\"}}"}

\* reBasicString with + in place of *: the empty string does not match
AddQuotesNonEmpty(f, s) == s = << >> \/ \E i \in 1..Len(s) : s[i] \in NonBasic

\* FormatEntry.AddQuotes: s does not match ^[-:_a-zA-Z0-9]*$
AddQuotes(f, s) == \E i \in 1..Len(s) : s[i] \in NonBasic

\* Format with the Exclude test not guarded by Exclude != ""
FormatExcludeAlways(f, k, fpErr, outBuf) ==
    LET r == String(f, k, fpErr)
    IN  IF r.err # "none" THEN [out |-> outBuf, err |-> r.err]
        ELSE IF f.OmitEmpty /\ r.s = << >> THEN [out |-> outBuf, err |-> "none"]
        ELSE IF f.Exclude = r.s THEN [out |-> outBuf, err |-> "none"]
        ELSE IF f.Type = FormatJSON
        THEN [out |-> outBuf \o <<SP>> \o r.s, err |-> "none"]
        ELSE IF AddQuotes(f, r.s)
        THEN [out |-> outBuf \o <<SP, TypeName(f.Type), "=">> \o Quote(r.s), err |-> "none"]
        ELSE [out |-> outBuf \o <<SP, TypeName(f.Type), "=">> \o r.s, err |-> "none"]

\* FormatEntry.Format: outBuf after the call, and the error
Format(f, k, fpErr, outBuf) ==
    LET r == String(f, k, fpErr)
    IN  IF r.err # "none" THEN [out |-> outBuf, err |-> r.err]
        ELSE IF f.OmitEmpty /\ r.s = << >> THEN [out |-> outBuf, err |-> "none"]
        ELSE IF f.Exclude # << >> /\ f.Exclude = r.s THEN [out |-> outBuf, err |-> "none"]
        ELSE IF f.Type = FormatJSON
        THEN [out |-> outBuf \o <<SP>> \o r.s, err |-> "none"]
        ELSE IF AddQuotes(f, r.s)
        THEN [out |-> outBuf \o <<SP, TypeName(f.Type), "=">> \o Quote(r.s), err |-> "none"]
        ELSE [out |-> outBuf \o <<SP, TypeName(f.Type), "=">> \o r.s, err |-> "none"]

\* the texts a format entry is drawn from: every type, other spellings of a
\* type, both modifiers, and the ways an entry can be wrong
EntryTexts ==
    {<<"name">>, <<"NAME">>, <<"version">>, <<"curve">>, <<"groups">>,
     <<"notAfter">>, <<"NotAfter">>, <<"fingerprint">>, <<"networks">>,
     <<"unsafeNetworks">>, <<"json">>,
     <<"version", ":", "!=", "1">>, <<"version", ":", "!=", "2">>,
     <<"groups", ":", "?">>, <<"groups", ":", "!=">>,
     <<"groups", ":", "?", ":", "!=", "dev">>,
     <<"networks", ":", "?">>,
     << >>, <<"bogus">>, <<"FormatInvalid">>, <<"bogus", ":", "?">>,
     <<"name", ":">>, <<"name", ":", "x">>, <<"groups", ":", "?", "x">>}

\* every format string of at most MaxEntries entries
FormatStrings == UNION {{Join(es) : es \in [1..n -> EntryTexts]} : n \in 1..MaxEntries}

\* main after flag.Parse: the -format string about to be parsed, and the
\* certificate the entries will be applied to
FormatInit ==
    /\ disk = << >>
    /\ kind = << >>
    /\ orig = << >>
    /\ flagList = FALSE
    /\ flagDiff = FALSE
    /\ flagWrite = FALSE
    /\ idx = 1
    /\ pc = "startup"
    /\ scan = StartScan(<< >>)
    /\ listed = {}
    /\ diffed = {}
    /\ written = {}
    /\ \E s \in FormatStrings, k \in CertBodies, e \in BOOLEAN :
        fmt = [NoFormat EXCEPT !.pc = "parse", !.input = s, !.cert = k, !.fpErr = e]

Rest == <<disk, kind, orig, flagList, flagDiff, flagWrite, idx, pc, scan,
          listed, diffed, written>>

\* ParseFormatEntries returns the entries
ParseFormat ==
    /\ fmt.pc = "parse"
    /\ LET r == ParseFormatEntries(fmt.input)
       IN  /\ r.err = "none"
           /\ fmt' = [fmt EXCEPT !.pc = "render", !.fes = r.fes]
    /\ UNCHANGED Rest

\* ParseFormatEntries returns nil and an error: log.Fatal
ParseFormatFail ==
    /\ fmt.pc = "parse"
    /\ LET r == ParseFormatEntries(fmt.input)
       IN  /\ r.err # "none"
           /\ fmt' = [fmt EXCEPT !.pc = "fatal", !.fes = r.fes, !.err = r.err,
                                 !.text = r.text]
    /\ UNCHANGED Rest

\* the call of Format for the next entry
FormatCall == Format(fmt.fes[Len(fmt.parts) + 1], fmt.cert, fmt.fpErr, fmt.out)

\* Format writes the field to the buffer
FormatEmit ==
    /\ fmt.pc = "render"
    /\ Len(fmt.parts) < Len(fmt.fes)
    /\ FormatCall.err = "none"
    /\ FormatCall.out # fmt.out
    /\ fmt' = [fmt EXCEPT !.out = FormatCall.out,
                          !.parts = Append(@, SubSeq(FormatCall.out, Len(fmt.out) + 1,
                                                     Len(FormatCall.out)))]
    /\ UNCHANGED Rest

\* Format returns nil without writing
FormatSuppress ==
    /\ fmt.pc = "render"
    /\ Len(fmt.parts) < Len(fmt.fes)
    /\ FormatCall.err = "none"
    /\ FormatCall.out = fmt.out
    /\ fmt' = [fmt EXCEPT !.parts = Append(@, << >>)]
    /\ UNCHANGED Rest

\* Format returns the error of String
FormatFail ==
    /\ fmt.pc = "render"
    /\ Len(fmt.parts) < Len(fmt.fes)
    /\ FormatCall.err # "none"
    /\ fmt' = [fmt EXCEPT !.pc = "failed", !.err = FormatCall.err]
    /\ UNCHANGED Rest

\* every entry visited: the caller ends the line
RenderDone ==
    /\ fmt.pc = "render"
    /\ Len(fmt.parts) = Len(fmt.fes)
    /\ fmt' = [fmt EXCEPT !.pc = "done", !.out = @ \o <<LF>>]
    /\ UNCHANGED Rest

FormatNext ==
    \/ ParseFormat
    \/ ParseFormatFail
    \/ FormatEmit
    \/ FormatSuppress
    \/ FormatFail
    \/ RenderDone

\* the -format string parsed at startup and applied to one certificate
FormatSpec == FormatInit /\ [][FormatNext]_vars

\* ------------------------------------------------------- reading a buffer
\* the lines of a buffer, each with its line feed; the last may have none
RECURSIVE SplitLines(_)
SplitLines(b) ==
    IF b = << >> THEN << >>
    ELSE LET rd == ReadBytes(b) IN <<rd.bs>> \o SplitLines(rd.rest)

IsAnnotation(l) == HasPrefix(l, AnnotationPrefix)
IsBegin(l) == HasPrefix(l, BeginMarker)
IsEnd(l) == HasPrefix(l, EndMarker)

RECURSIVE NonAnnotations(_)
NonAnnotations(ls) ==
    IF ls = << >> THEN << >>
    ELSE (IF IsAnnotation(Head(ls)) THEN << >> ELSE <<Head(ls)>>)
         \o NonAnnotations(Tail(ls))

Count(ls, P(_)) == Cardinality({i \in 1..Len(ls) : P(ls[i])})

\* b holds the bytes of part somewhere
Contains(b, part) ==
    \E i \in 0..(Len(b) - Len(part)) : SubSeq(b, i + 1, i + Len(part)) = part

\* the scan of the current file has returned without error
ScanOk ==
    /\ pc = "scanned"
    /\ scan.err = "none"

Input == orig[idx]

\* ------------------------------------------------------------------ claims

\* a zero byte, found by looking at the bytes themselves
HasNul(b) == \E i \in 1..Len(b) : b[i] = NUL

FirstLineHasNul(b) == b # << >> /\ HasNul(SplitLines(b)[1])

\* C1 (as stated): scanning the output of a successful scan succeeds and gives
\* that output again, byte for byte.  Outputs whose first line holds a zero
\* byte are left out here: the second scan stops at the binary guard with an
\* empty outBuf, and the file would be left as it is.
C1_Idempotent ==
    (ScanOk /\ ~FirstLineHasNul(scan.outBuf)) =>
        LET again == ProcessBytes(scan.outBuf)
        IN  /\ again.err = "none"
            /\ again.outBuf = scan.outBuf

\* C2 (as stated): a file with no cert block (no BEGIN line with an END line
\* after it) comes out byte for byte as it went in.  Files the binary guard
\* stops are left out here.
C2_NoBlockIdentity ==
    LET ls == SplitLines(Input)
        block == \E i, j \in 1..Len(ls) : i < j /\ IsBegin(ls[i]) /\ IsEnd(ls[j])
    IN  (ScanOk /\ ~block /\ ~FirstLineHasNul(Input)) => scan.outBuf = Input

\* no line of b starts with a BEGIN marker, an END marker or the comment
\* prefix, and the first line holds no zero byte
Plain(b) ==
    LET ls == SplitLines(b)
    IN  /\ \A i \in 1..Len(ls) : ~IsBegin(ls[i]) /\ ~IsEnd(ls[i]) /\ ~IsAnnotation(ls[i])
        /\ ~FirstLineHasNul(b)

\* C2 (amended): a file in which no line starts with a BEGIN marker, an END
\* marker or the comment prefix, and whose first line holds no zero byte,
\* comes out byte for byte as it went in, and no block is reported.
C2_PlainIdentity ==
    (ScanOk /\ Plain(Input)) =>
        /\ scan.outBuf = Input
        /\ ~scan.foundCert

\* a plain file of three lines, a zero byte on a later line, the last line
\* without a line feed, scanned to the end
C2_Witness ==
    /\ ScanOk
    /\ Plain(Input)
    /\ Len(SplitLines(Input)) = 3
    /\ HasNul(Input)
    /\ Input[Len(Input)] # LF

\* C3 (as stated): after a successful scan the output is the input's lines
\* that are no annotation, unchanged and in order, plus one annotation line
\* for each completed block (each END line of the output), and nothing else.
\* Files the binary guard stops, and files that end inside a block, are left
\* out here.
C3_LineAccounting ==
    (ScanOk /\ ~FirstLineHasNul(Input) /\ ~scan.inCert) =>
        LET i == SplitLines(Input)
            o == SplitLines(scan.outBuf)
        IN  /\ NonAnnotations(o) = NonAnnotations(i)
            /\ Count(o, IsAnnotation) = Count(o, IsEnd)

\* lines j, j+1, j+2 of ls are the block of certificate k
BlockAt(ls, j, k) ==
    /\ j >= 1
    /\ j + 2 <= Len(ls)
    /\ ls[j] = BeginLine
    /\ ls[j + 1] = <<k, LF>>
    /\ ls[j + 2] \in {EndLine, EndMarker}

\* C4 (as stated): when an annotation line stands immediately above a block
\* that decodes, each block of the output has exactly one annotation line
\* immediately before its BEGIN line, the freshly computed one, and the old
\* line is nowhere in the output.  Files with a BEGIN line that no END line
\* closes before the annotation line are left out here.
C4_StaleReplaced ==
    LET i == SplitLines(Input)
        o == SplitLines(scan.outBuf)
        stale == {j \in 1..Len(i) :
                    /\ IsAnnotation(i[j])
                    /\ \A m \in 1..(j - 1) :
                        IsBegin(i[m]) => \E n \in (m + 1)..(j - 1) : IsEnd(i[n])
                    /\ \E k \in CertBodies : Decode(Block(k)) = k /\ BlockAt(i, j + 1, k)}
    IN  (ScanOk /\ stale # {}) =>
            /\ \A j \in 1..Len(o) : \A k \in CertBodies :
                BlockAt(o, j, k) =>
                    /\ j > 1
                    /\ IsAnnotation(o[j - 1])
                    /\ o[j - 1] = Comment(k)
                    /\ (j > 2 => ~IsAnnotation(o[j - 2]))
            /\ \A j \in stale : \A m \in 1..Len(o) :
                o[m] = i[j] => \E k \in CertBodies : i[j] = Comment(k)

\* the three lines of PaddedBlock stand at lines j..j+2 of ls
PaddedAt(ls, j) ==
    /\ j >= 1
    /\ j + 2 <= Len(ls)
    /\ Concat(SubSeq(ls, j, j + 2)) \in {PaddedBlock, ChompLF(PaddedBlock)}

\* C5 (as stated): a block indented by P is detected, its annotation line
\* starts with exactly P, and the block is re-emitted with the indentation
\* it had.
C5_PaddingPreserved ==
    LET i == SplitLines(Input)
        at == {j \in 1..Len(i) :
                 /\ PaddedAt(i, j)
                 /\ \A m \in 1..(j - 1) : ~IsBegin(i[m]) /\ ~PaddedAt(i, m)}
    IN  (ScanOk /\ at # {} /\ ~FirstLineHasNul(Input)) =>
            /\ scan.foundCert
            /\ Contains(scan.outBuf, <<SP, SP>> \o Comment("k1") \o ChompLF(PaddedBlock))

\* C6: while a file is scanned, and when the scan has returned, srcBuf is the
\* bytes read from the file so far: srcBuf followed by the unread bytes is the
\* file.
C6_SourceBuffer ==
    pc \in {"scan", "scanned"} => scan.srcBuf \o scan.rest = Input

\* an annotation line dropped and a BEGIN line buffered: srcBuf holds both,
\* outBuf neither
C6_Witness ==
    /\ pc = "scan"
    /\ scan.inCert
    /\ IsAnnotation(scan.srcBuf)
    /\ Len(SplitLines(scan.srcBuf)) = 2
    /\ scan.outBuf = << >>
    /\ scan.rest # << >>

\* the entries the program has listed, diffed or written
Acted == listed \cup diffed \cup written

\* C7: a file whose first line holds a zero byte: the scan returns at that
\* line with found = false and no error, nothing in outBuf or crtBuf, and the
\* file is never listed, diffed or written and keeps its bytes.
C7_BinaryGuard ==
    \A i \in DOMAIN orig :
        (kind[i] = "file" /\ FirstLineHasNul(orig[i])) =>
            /\ disk[i] = orig[i]
            /\ i \notin Acted
            /\ (idx = i /\ pc = "scanned" /\ scan.srcBuf # << >>) =>
                /\ ~scan.foundCert
                /\ scan.err = "none"
                /\ scan.srcBuf = SplitLines(orig[i])[1]
                /\ scan.outBuf = << >>
                /\ scan.crtBuf = << >>
                /\ scan.line = 1

\* the walk is over with -l, -d and -w given, and one of its files had a zero
\* byte on its first line and a complete block after it
C7_Witness ==
    /\ pc = "exit"
    /\ flagList /\ flagDiff /\ flagWrite
    /\ \E i \in DOMAIN orig :
        /\ kind[i] = "file"
        /\ FirstLineHasNul(orig[i])
        /\ Contains(orig[i], Block("k1"))

\* C8: an entry is listed, diffed or written only once its scan has returned
\* without error; when a scan fails (decode, read or open) the scan stopped
\* at the failing line, the program ends there, that file is not listed,
\* diffed or written and keeps its bytes, and so does every later entry.
C8_FailFast ==
    /\ \A i \in Acted : i < idx \/ (i = idx /\ pc = "fatal" /\ scan.err = "write")
    /\ (pc \in {"scanned", "fatal"} /\ scan.err = "decode") =>
        /\ scan.srcBuf # << >>
        /\ IsEnd(SplitLines(scan.srcBuf)[Len(SplitLines(scan.srcBuf))])
    /\ (pc = "fatal" /\ scan.err \in {"decode", "read", "open"}) =>
        /\ ~ENABLED Next
        /\ \A j \in idx..Len(disk) : j \notin Acted /\ disk[j] = orig[j]

\* the second block of the first file fails to decode after the first block
\* was put in outBuf, with -l, -d and -w given and a file still to visit
C8_Witness ==
    /\ pc = "fatal"
    /\ scan.err = "decode"
    /\ flagList /\ flagDiff /\ flagWrite
    /\ idx = 1
    /\ Len(disk) = 2
    /\ kind[2] = "file"
    /\ Contains(scan.outBuf, Block("k1"))

\* the three lines of BlockV2 stand at lines j..j+2 of ls
BlockV2At(ls, j) ==
    /\ j >= 1
    /\ j + 2 <= Len(ls)
    /\ Concat(SubSeq(ls, j, j + 2)) \in {BlockV2, ChompLF(BlockV2)}

\* C9 (as stated): a block between the V2 markers is scanned like one between
\* the plain markers: it is found, and its annotation is put before it.
C9_V2Recognized ==
    LET i == SplitLines(Input)
        at == {j \in 1..Len(i) :
                 /\ BlockV2At(i, j)
                 /\ \A m \in 1..(j - 1) : ~IsBegin(i[m]) /\ ~BlockV2At(i, m)}
    IN  (ScanOk /\ at # {} /\ ~FirstLineHasNul(Input)) =>
            /\ scan.foundCert
            /\ Contains(scan.outBuf, Comment("k3") \o ChompLF(BlockV2))

\* C10 (as stated): a step that prints a file's path or writes the file back
\* is taken only when the output differs from the bytes read.
C10_OnlyChangedActedOn ==
    [][(idx \in listed' \ listed \/ idx \in written' \ written)
          => scan.outBuf # scan.srcBuf]_vars

\* ------------------------------------------------------ claims on the format
\* the comma-separated entries of the format string being handled
InputEntries == Split(fmt.input, ",")

\* the type token of an entry text: what stands before its first colon
TypeToken(e) == Split(e, ":")[1]

\* ParseFormatEntries has returned without error
Parsed == fmt.pc \in {"render", "done", "failed"}

\* C11: field order fidelity.  When the format string parses, the entry list
\* has one entry per comma-separated entry of the string, the j-th entry being
\* the one the j-th text stands for (so duplicates are kept); and the finished
\* annotation is, in that order, what Format writes for each of those entries,
\* followed by the line feed of the caller.
C11_FieldOrder ==
    /\ Parsed =>
        /\ Len(fmt.fes) = Len(InputEntries)
        /\ \A j \in 1..Len(InputEntries) :
            /\ ToLower(<<TypeName(fmt.fes[j].Type)>>) = ToLower(TypeToken(InputEntries[j]))
            /\ fmt.fes[j] = ParseFormatEntry(InputEntries[j]).fe
    /\ fmt.pc = "done" =>
        fmt.out = Concat([j \in 1..Len(InputEntries) |->
                            Format(ParseFormatEntry(InputEntries[j]).fe, fmt.cert,
                                   fmt.fpErr, << >>).out]) \o <<LF>>

\* an annotation finished for a format string that names the same type twice:
\* the field stands in it twice
C11_Witness ==
    /\ fmt.pc = "done"
    /\ Len(fmt.fes) = 2
    /\ fmt.fes[1].Type = fmt.fes[2].Type
    /\ fmt.parts[1] # << >>
    /\ fmt.parts[2] = fmt.parts[1]
    /\ fmt.out = fmt.parts[1] \o fmt.parts[1] \o <<LF>>

\* the value String computes for the j-th entry of the list
ValueOf(j) == String(fmt.fes[j], fmt.cert, fmt.fpErr)

\* the suppression rule as the specification words it
Suppressed(f, s) ==
    \/ f.OmitEmpty /\ s = << >>
    \/ f.Exclude # << >> /\ f.Exclude = s

C13_GroupsOmittedIfEmpty ==
    \A j \in 1..Len(fmt.parts) :
        (/\ InputEntries[j] = <<"groups">>
         /\ CertOf(fmt.cert).groups = << >>)
        => fmt.parts[j] = << >>

\* the nine type tokens, and which of the model's symbols spell each of them
\* when case is ignored
TypeTokens ==
    {"name", "version", "curve", "groups", "notAfter", "fingerprint", "networks",
     "unsafeNetworks", "json"}

Spells(c, t) ==
    \/ c = t
    \/ c = "NAME" /\ t = "name"
    \/ c = "NotAfter" /\ t = "notAfter"

IsTypeToken(s) == Len(s) = 1 /\ \E t \in TypeTokens : Spells(s[1], t)

IsModifier(p) == p = <<"?">> \/ (Len(p) >= 1 /\ p[1] = "!=")

\* an entry text is well formed: a type token, then modifiers
WellFormedEntry(e) ==
    LET ps == Split(e, ":")
    IN  /\ IsTypeToken(ps[1])
        /\ \A i \in 2..Len(ps) : IsModifier(ps[i])

\* the error the claim expects for an entry text that is not well formed
ExpectedError(e) ==
    LET ps == Split(e, ":")
    IN  IF ~IsTypeToken(ps[1]) THEN [err |-> "invalid format type", text |-> e]
        ELSE LET bad == {i \in 2..Len(ps) : ~IsModifier(ps[i])}
                 i == CHOOSE i \in bad : \A j \in bad : i <= j
             IN  [err |-> "invalid format modifier", text |-> ps[i]]

\* C14: format parsing accepts exactly the well-formed strings.  Once
\* ParseFormatEntries has returned, it returned entries if and only if every
\* comma-separated entry is a type token followed by modifiers that are `?` or
\* start with `!=`; otherwise it returned no entry list and the error for the
\* first entry that is not well formed: invalid format type with the entry
\* text, or invalid format modifier with the token.
C14_ParseAccepts ==
    LET bad == {j \in 1..Len(InputEntries) : ~WellFormedEntry(InputEntries[j])}
    IN  /\ Parsed => bad = {} /\ Len(fmt.fes) >= 1
        /\ fmt.pc = "fatal" =>
            /\ bad # {}
            /\ fmt.fes = << >>
            /\ LET j == CHOOSE j \in bad : \A i \in bad : j <= i
                   x == ExpectedError(InputEntries[j])
               IN  fmt.err = x.err /\ fmt.text = x.text

\* NAME in capitals is accepted, the token FormatInvalid after it is not
C14_Witness ==
    /\ fmt.pc = "fatal"
    /\ fmt.input = <<"NAME", ",", "FormatInvalid">>
    /\ fmt.err = "invalid format type"
    /\ fmt.text = <<"FormatInvalid">>

\* the symbols of certificate values made only of letters, digits, '-', ':'
\* and '_'
BareSafe ==
    {"My", "CA", "host", "host2", "dev", "ops", "qa", "1", "2", "16", "24", "64",
     "2026-06-11", "2027-01-01", "2027-02-02", "0c0f", "77aa", "9b1e",
     "CURVE25519", "P256", "fd00::3"}

HasOutside(v) == \E i \in 1..Len(v) : v[i] \notin BareSafe

\* the type token the j-th entry of the format string spells
KeyOf(j) == CHOOSE t \in TypeTokens : Spells(TypeToken(InputEntries[j])[1], t)

\* C19: quoting rule.  What Format wrote for an entry it did not suppress is
\* one space and then: for json the raw value; for every other type the type
\* token, `=`, and the value, in double quotes with escaping if and only if it
\* has a character outside letters, digits, `-`, `:`, `_` (so the empty value
\* is written bare).
C19_Quoting ==
    \A j \in 1..Len(fmt.parts) :
        fmt.parts[j] # << >> =>
            LET v == ValueOf(j).s
            IN  IF KeyOf(j) = "json"
                THEN fmt.parts[j] = <<SP>> \o v
                ELSE fmt.parts[j] = <<SP, KeyOf(j), "=">>
                                    \o (IF HasOutside(v) THEN <<"\"">> \o Escape(v) \o <<"\"">>
                                        ELSE v)

\* networks,groups on a certificate with two networks and no groups: the
\* networks value is quoted, the empty groups value is written bare
C19_Witness ==
    /\ fmt.pc = "done"
    /\ fmt.input = <<"networks", ",", "groups">>
    /\ fmt.cert = "k3"
    /\ fmt.parts[1] = <<SP, "networks", "=", "\"", "10.2.0.3", "/", "16", ",",
                        "fd00::3", "/", "64", "\"">>
    /\ fmt.parts[2] = <<SP, "groups", "=">>

\* --------------------------------------------------- claims on the scanner
\* C15: per-file independence.  At every point of the scan of a file, in
\* whatever position of the walk and after whatever files, carrying the scan
\* on to its end gives the found flag, the error, the source buffer, the
\* output buffer and the cert buffer that a scan of the same bytes gives on a
\* processor that has scanned nothing before.  (A scan that an I/O error ends
\* is left out: its result depends on where the error strikes.)
C15_PerFileIndependence ==
    (pc \in {"scan", "scanned"} /\ scan.err \in {"none", "decode"}) =>
        LET here == RunScan(scan)
            fresh == ProcessBytes(orig[idx])
        IN  /\ here.foundCert = fresh.foundCert
            /\ here.err = fresh.err
            /\ here.srcBuf = fresh.srcBuf
            /\ here.outBuf = fresh.outBuf
            /\ here.crtBuf = fresh.crtBuf

\* the second file of a walk scanned to its end after a first file that ended
\* inside a block: only the second file's END line is handed to the decoder
C15_Witness ==
    /\ pc = "scanned"
    /\ idx = 2
    /\ orig[1] = BeginLine \o BodyLine
    /\ orig[2] = EndLine
    /\ scan.crtBuf = EndLine
    /\ scan.outBuf = << >>
    /\ scan.err = "decode"

\* the line the next iteration of the loop reads
NextLine == ReadBytes(scan.rest).bs

\* the step is an iteration of the loop that read NextLine
ReadsLine == pc = "scan" /\ scan'.srcBuf = scan.srcBuf \o NextLine

\* C16: the stale-annotation rule applies only OUTSIDE.  A line that starts
\* with the comment prefix and is read while the scanner is inside a block is
\* appended to the cert buffer, and the scanner stays inside the block.
C16_AnnotationInsideKept ==
    [][(/\ ReadsLine
        /\ scan.inCert
        /\ HasPrefix(NextLine, AnnotationPrefix))
       => (/\ scan'.crtBuf = scan.crtBuf \o NextLine
           /\ scan'.inCert)]_vars

\* the line number of the BEGIN line that opens the block a buffer ends in:
\* the first BEGIN line after the last END line; 0 when there is none
OpenIndex(b) ==
    LET ls == SplitLines(b)
        ends == {i \in 1..Len(ls) : IsEnd(ls[i])}
        e == IF ends = {} THEN 0 ELSE CHOOSE i \in ends : \A j \in ends : j <= i
        begins == {i \in (e + 1)..Len(ls) : IsBegin(ls[i])}
    IN  IF begins = {} THEN 0 ELSE CHOOSE i \in begins : \A j \in begins : i <= j

\* the bytes of a buffer before that BEGIN line
BeforeOpen(b) == Concat(SubSeq(SplitLines(b), 1, OpenIndex(b) - 1))

\* C17: truncated block.  When the file ends while the scanner is inside a
\* block, the scan returns without error, and its output buffer and found
\* flag are those of a scan of the bytes before the BEGIN line that opened the
\* block: nothing from that line on is in the output, no annotation was
\* written for the block, and found is true only if a block was completed
\* before it.
C17_TruncatedBlock ==
    (pc = "scanned" /\ scan.inCert /\ scan.err # "read") =>
        LET pre == BeforeOpen(Input)
            r == ProcessBytes(pre)
        IN  /\ scan.err = "none"
            /\ OpenIndex(Input) > 0
            /\ r.err = "none" /\ ~r.inCert
            /\ scan.outBuf = r.outBuf
            /\ scan.foundCert = r.foundCert
            /\ scan.foundCert => Count(SplitLines(pre), IsEnd) > 0

\* a complete block, then a BEGIN line and a body line that no END line
\* follows: the output is the annotated first block and nothing more
C17_Witness ==
    /\ pc = "scanned"
    /\ Input = Block("k1") \o BeginLine \o BodyLine
    /\ scan.inCert
    /\ scan.err = "none"
    /\ scan.foundCert
    /\ scan.outBuf = Comment("k1") \o Block("k1")
    /\ scan.crtBuf = BeginLine \o BodyLine

\* C18: decode only on the way out of a block.  An END line read while the
\* scanner is outside a block (and not stopped by the binary guard) takes the
\* default transition: it is appended to the output buffer, the found flag
\* stays as it was, and the scan goes on without an error.
C18_EndOutsideIsText ==
    [][(/\ ReadsLine
        /\ ~scan.inCert
        /\ IsEnd(NextLine)
        /\ ~(scan.line = 1 /\ HasNul(NextLine)))
       => (/\ scan'.outBuf = scan.outBuf \o NextLine
           /\ scan'.foundCert = scan.foundCert
           /\ scan'.err = "none")]_vars

\* the lines read so far from the BEGIN line that opened the current block on
SinceOpen(b) ==
    LET ls == SplitLines(b)
    IN  Concat(SubSeq(ls, OpenIndex(b), Len(ls)))

\* C20: cert-buffer invariant.  Between lines, and at the end of a scan that
\* returns without error, the cert buffer is empty while the scanner is
\* outside a block, and while it is inside it holds exactly the lines read
\* since the BEGIN line that opened the block.
C20_CertBuffer ==
    (pc \in {"scan", "scanned"} /\ scan.err = "none") =>
        IF scan.inCert
        THEN OpenIndex(scan.srcBuf) > 0 /\ scan.crtBuf = SinceOpen(scan.srcBuf)
        ELSE scan.crtBuf = << >>
====
